---------------------------- MODULE Spec2Model ----------------------------
(***************************************************************************)
(* A model of the filler match engine: the Plateau (board, placement       *)
(* validation, commit and aging; src/src/models/plateau/mod.rs) and the    *)
(* Engine turn loop (src/src/engine/engine.rs).                            *)
(*                                                                         *)
(* Four specifications share the state:                                    *)
(*   Spec        the Plateau driven by arbitrary callers: place_piece      *)
(*               (which ages, validates and stamps) with any piece, any    *)
(*               anchor and either player;                                 *)
(*   QuerySpec   Spec with calls of is_valid_placement by itself in        *)
(*               between;                                                  *)
(*   NewSpec     Plateau::new called with any sides and start points, and  *)
(*               place_piece on the plateau it returns;                    *)
(*   EngineSpec  Engine::run, one loop iteration per step, the bots'       *)
(*               answers and the piece bag's draws being the inputs.       *)
(***************************************************************************)
EXTENDS Integers, Sequences, FiniteSets, TLC

(***************************************************************************)
(* Bounds of the model.                                                    *)
(***************************************************************************)
\* Board dimensions explored (Plateau::new takes any width and height).
BoardWidth == 3
BoardHeight == 2
\* A piece has at most this many sub-cells (width * height).
MaxPieceCells == 2
\* An anchor lies at most this far outside the grid on each side.
Reach == 1
\* Plateau::new is called with sides of at most this length, and with start
\* points from one cell before the origin to this coordinate.
MaxSide == 2
\* The scan order is looked at with pieces of at most this many rows and
\* columns.
MaxScanSide == 2
\* A piece handed to is_valid_placement alone (a query, which places
\* nothing) has at most this many sub-cells.
MaxQueryCells == 3
\* Engine::run is followed for at most this many turns.
MaxMoves == 8

(***************************************************************************)
(* Program constants.                                                      *)
(***************************************************************************)
ERROR_THRESHOLD == 6
DEFAULT_SIZE == 50

(***************************************************************************)
(* State.                                                                  *)
(***************************************************************************)
VARIABLES
    \* struct Plateau
    width, height, player1_start, player2_start, cells, last_piece,
    \* the value the last call of the Plateau's API returned
    returned,
    \* struct Engine
    players, player_count, move_count, history,
    \* Engine::run: its local counter, its position, and the responses handed
    \* to the on_player_response hook
    errors, pc, observed

plateau_vars == <<width, height, player1_start, player2_start, cells, last_piece>>
engine_vars == <<players, player_count, move_count, history, errors, pc, observed>>
vars == <<plateau_vars, returned, engine_vars>>

(***************************************************************************)
(* Point and Piece (models/point, models/piece).                           *)
(***************************************************************************)
Point(x, y) == [x |-> x, y |-> y]

\* impl Add for &Point
PointAdd(a, b) == Point(a.x + b.x, a.y + b.y)

\* Piece::new(width, height, cells): a row-major mask.
Piece(w, h, mask) == [width |-> w, height |-> h, cells |-> mask]

\* Piece::get(Point {x, y}): the mask's entry of column x, row y.
PieceGet(piece, p) == piece.cells[piece.width * p.y + p.x + 1]

\* The local points of a piece in the order of loops with x outside and y
\* inside.
ScanPoint_column_major(piece, i) == Point(i \div piece.height, i % piece.height)

\* The local points of a piece in the order of the loops
\* `for y in 0..height { for x in 0..width {`.
ScanPoint(piece, i) == Point(i % piece.width, i \div piece.width)

ScanLen(piece) == piece.width * piece.height

(***************************************************************************)
(* Cell.                                                                   *)
(***************************************************************************)
Player1 == "Player1"
Player2 == "Player2"
Players == {Player1, Player2}

Empty == [tag |-> "Empty"]
Owned(player, is_new) == [tag |-> player, is_new |-> is_new]

\* The outcome of a call of Cell::eq: the boolean it returns, or no return
\* at all.
Returns(b) == [returns |-> TRUE, value |-> b]
NoReturn == [returns |-> FALSE]

\* A derived PartialEq, which compares the is_new flags as well.
eq_derived(self, other) == Returns(self = other)

\* impl PartialEq for Cell. The arm `_ => self == other` calls eq again with
\* the same arguments: for self = Empty the call recurses without end (the
\* stack overflows, or the optimised tail call spins), and nothing is
\* returned.
eq(self, other) ==
    CASE self.tag = Player1 -> Returns(other.tag = Player1)
      [] self.tag = Player2 -> Returns(other.tag = Player2)
      [] OTHER -> NoReturn

\* Cell::age with the players' arms exchanged.
age_swapped(cell) ==
    CASE cell.tag = Player1 -> Owned(Player2, FALSE)
      [] cell.tag = Player2 -> Owned(Player1, FALSE)
      [] OTHER -> Empty

\* Cell::age
age(cell) ==
    CASE cell.tag = Player1 -> Owned(Player1, FALSE)
      [] cell.tag = Player2 -> Owned(Player2, FALSE)
      [] OTHER -> Empty

(***************************************************************************)
(* Plateau.                                                                *)
(***************************************************************************)
None == "None"
Some(v) == <<v>>

Ok == "Ok"
ErrOutOfBounds == "Piece out of bounds"
ErrExcessOverlap == "Overlap greater than one"
ErrEnemyOverlap == "Overlap on other player"
ErrNoOverlap == "No Overlap"
Panic == "panic"

\* Plateau::is_in_bounds with `<=` for `<`.
is_in_bounds_inclusive(w, h, p) == p.x >= 0 /\ p.x <= w /\ p.y >= 0 /\ p.y <= h

\* Plateau::is_in_bounds without the checks against 0.
is_in_bounds_unsigned(w, h, p) == p.x < w /\ p.y < h

\* Plateau::is_in_bounds without the checks of x.
is_in_bounds_y_only(w, h, p) == p.y >= 0 /\ p.y < h

\* Plateau::is_in_bounds
is_in_bounds(w, h, p) == p.x >= 0 /\ p.x < w /\ p.y >= 0 /\ p.y < h

\* The flat index of Plateau::get and Plateau::set; a negative value cast to
\* usize is past the end of every vector.
CellIndex(w, p) == w * p.y + p.x

IndexInRange(cs, w, p) == CellIndex(w, p) >= 0 /\ CellIndex(w, p) < Len(cs)

\* Plateau::get: panics ("Cells incorrectly initialized") past the vector.
PanicCell == [tag |-> "panic"]
get(cs, w, p) == IF IndexInRange(cs, w, p) THEN cs[CellIndex(w, p) + 1] ELSE PanicCell

\* Plateau::set: the indexing panics past the vector (see SetPanics).
set(cs, w, p, cell) ==
    IF IndexInRange(cs, w, p) THEN [cs EXCEPT ![CellIndex(w, p) + 1] = cell] ELSE cs

SetPanics(cs, w, p) == ~IndexInRange(cs, w, p)

\* Plateau::new with `vec![Cell::Empty; width * width]`.
PlateauNew_square_cells(w, h, p1, p2) ==
    LET empty == [i \in 1..(w * w) |-> Empty] IN
    IF ~is_in_bounds(w, h, p1) THEN [err |-> "Player1 out of bounds"]
    ELSE LET c1 == set(empty, w, p1, Owned(Player1, FALSE)) IN
         IF ~is_in_bounds(w, h, p2) THEN [err |-> "Player2 out of bounds"]
         ELSE [err |-> None,
               player1_start |-> p1, player2_start |-> p2,
               width |-> w, height |-> h,
               cells |-> set(c1, w, p2, Owned(Player2, FALSE)),
               last_piece |-> None]

\* Plateau::new with player1 tested in both matches.
PlateauNew_tests_player1_twice(w, h, p1, p2) ==
    LET empty == [i \in 1..(w * h) |-> Empty] IN
    IF ~is_in_bounds(w, h, p1) THEN [err |-> "Player1 out of bounds"]
    ELSE LET c1 == set(empty, w, p1, Owned(Player1, FALSE)) IN
         IF ~is_in_bounds(w, h, p1) THEN [err |-> "Player2 out of bounds"]
         ELSE [err |-> None,
               player1_start |-> p1, player2_start |-> p2,
               width |-> w, height |-> h,
               cells |-> set(c1, w, p2, Owned(Player2, FALSE)),
               last_piece |-> None]

\* Plateau::new
PlateauNew(w, h, p1, p2) ==
    LET empty == [i \in 1..(w * h) |-> Empty] IN
    IF ~is_in_bounds(w, h, p1) THEN [err |-> "Player1 out of bounds"]
    ELSE LET c1 == set(empty, w, p1, Owned(Player1, FALSE)) IN
         IF ~is_in_bounds(w, h, p2) THEN [err |-> "Player2 out of bounds"]
         ELSE [err |-> None,
               player1_start |-> p1, player2_start |-> p2,
               width |-> w, height |-> h,
               cells |-> set(c1, w, p2, Owned(Player2, FALSE)),
               last_piece |-> None]

\* Plateau::default
DEFAULT_P1_START == Point(5, 5)
DEFAULT_P2_START == Point(44, 44)
PlateauDefault == PlateauNew(DEFAULT_SIZE, DEFAULT_SIZE, DEFAULT_P1_START, DEFAULT_P2_START)

\* Plateau::is_valid_placement: the scan from the i-th local point on, with
\* the `overlap` flag as it stands there.
RECURSIVE ValidScan(_, _, _, _, _, _, _, _)
ValidScan(cs, w, h, piece, placement, owner, i, overlap) ==
    IF i >= ScanLen(piece) THEN (IF ~overlap THEN ErrNoOverlap ELSE Ok)
    ELSE IF ~PieceGet(piece, ScanPoint(piece, i))
         THEN ValidScan(cs, w, h, piece, placement, owner, i + 1, overlap)
    ELSE LET offset == PointAdd(ScanPoint(piece, i), placement) IN
         IF ~is_in_bounds(w, h, offset) THEN ErrOutOfBounds
         ELSE LET plat_cell == get(cs, w, offset) IN
              IF plat_cell = PanicCell THEN Panic
              ELSE IF plat_cell = Empty
                   THEN ValidScan(cs, w, h, piece, placement, owner, i + 1, overlap)
              ELSE IF eq(plat_cell, owner) = Returns(TRUE)
                   THEN (IF overlap THEN ErrExcessOverlap
                         ELSE ValidScan(cs, w, h, piece, placement, owner, i + 1, TRUE))
              ELSE ErrEnemyOverlap

\* Plateau::is_valid_placement with the bounds of all set sub-cells checked
\* before the scan.
is_valid_placement_bounds_first(cs, w, h, piece, placement, owner) ==
    IF \E i \in 0..(ScanLen(piece) - 1) :
           /\ PieceGet(piece, ScanPoint(piece, i))
           /\ ~is_in_bounds(w, h, PointAdd(ScanPoint(piece, i), placement))
    THEN ErrOutOfBounds
    ELSE ValidScan(cs, w, h, piece, placement, owner, 0, FALSE)

\* Plateau::is_valid_placement with the other player's cells looked for
\* before the scan.
is_valid_placement_enemy_first(cs, w, h, piece, placement, owner) ==
    IF \E i \in 0..(ScanLen(piece) - 1) :
           /\ PieceGet(piece, ScanPoint(piece, i))
           /\ is_in_bounds(w, h, PointAdd(ScanPoint(piece, i), placement))
           /\ get(cs, w, PointAdd(ScanPoint(piece, i), placement)).tag \notin {"Empty", owner.tag}
    THEN ErrEnemyOverlap
    ELSE ValidScan(cs, w, h, piece, placement, owner, 0, FALSE)

\* Plateau::is_valid_placement with `let mut overlap = true`.
is_valid_placement_overlap_preset(cs, w, h, piece, placement, owner) ==
    ValidScan(cs, w, h, piece, placement, owner, 0, TRUE)

\* Plateau::is_valid_placement with the corners of the piece's rectangle
\* checked against the bounds before the scan.
is_valid_placement_rect_bounds(cs, w, h, piece, placement, owner) ==
    IF \/ ~is_in_bounds(w, h, placement)
       \/ ~is_in_bounds(w, h, PointAdd(Point(piece.width - 1, piece.height - 1), placement))
    THEN ErrOutOfBounds
    ELSE ValidScan(cs, w, h, piece, placement, owner, 0, FALSE)

\* Plateau::is_valid_placement: `let mut overlap = false`, then the loops.
is_valid_placement(cs, w, h, piece, placement, owner) ==
    ValidScan(cs, w, h, piece, placement, owner, 0, FALSE)

\* The loops of Plateau::age_placement from the i-th local point on; `st` is
\* the cells so far and whether a get or set has panicked.
RECURSIVE AgeScan(_, _, _, _, _)
AgeScan(st, w, piece, placement, i) ==
    IF st.panicked \/ i >= ScanLen(piece) THEN st
    ELSE IF ~PieceGet(piece, ScanPoint(piece, i))
         THEN AgeScan(st, w, piece, placement, i + 1)
    ELSE LET offset == PointAdd(ScanPoint(piece, i), placement)
             owner == get(st.cells, w, offset)
         IN IF owner = PanicCell THEN [st EXCEPT !.panicked = TRUE]
            ELSE AgeScan([st EXCEPT !.cells = set(st.cells, w, offset, age(owner))],
                         w, piece, placement, i + 1)

\* Plateau::age_placement with loops that skip the first sub-cell.
age_placement_skips_first(cs, w, lp) ==
    IF lp = None THEN [cells |-> cs, panicked |-> FALSE]
    ELSE AgeScan([cells |-> cs, panicked |-> FALSE], w, lp[1].piece, lp[1].placement, 1)

\* Plateau::age_placement: self.last_piece.take(), then the loops.
age_placement(cs, w, lp) ==
    IF lp = None THEN [cells |-> cs, panicked |-> FALSE]
    ELSE AgeScan([cells |-> cs, panicked |-> FALSE], w, lp[1].piece, lp[1].placement, 0)

\* The stamping loops of Plateau::place_piece from the i-th local point on.
RECURSIVE StampScan(_, _, _, _, _, _)
StampScan(st, w, piece, placement, owner, i) ==
    IF st.panicked \/ i >= ScanLen(piece) THEN st
    ELSE IF ~PieceGet(piece, ScanPoint(piece, i))
         THEN StampScan(st, w, piece, placement, owner, i + 1)
    ELSE LET offset == PointAdd(ScanPoint(piece, i), placement) IN
         IF SetPanics(st.cells, w, offset) THEN [st EXCEPT !.panicked = TRUE]
         ELSE StampScan([st EXCEPT !.cells = set(st.cells, w, offset, owner)],
                        w, piece, placement, owner, i + 1)

\* Cell::Player1(true) / Cell::Player2(true) of Plateau::place_piece
OwnerCell(player) == Owned(player, TRUE)

\* Plateau::place_piece with the stamping loops run before the validation's
\* result is looked at.
place_piece_stamps_first(cs, w, h, lp, piece, placement, player) ==
    LET aged == age_placement(cs, w, lp)
        valid == is_valid_placement(aged.cells, w, h, piece, placement, OwnerCell(player))
        stamped == StampScan(aged, w, piece, placement, OwnerCell(player), 0)
    IN IF valid # Ok THEN [cells |-> stamped.cells, last_piece |-> None, result |-> valid]
       ELSE [cells |-> stamped.cells,
             last_piece |-> Some([placement |-> placement, piece |-> piece]),
             result |-> Ok]

\* Plateau::place_piece without `self.age_placement()`.
place_piece_without_aging(cs, w, h, lp, piece, placement, player) ==
    LET valid == is_valid_placement(cs, w, h, piece, placement, OwnerCell(player)) IN
    IF valid # Ok THEN [cells |-> cs, last_piece |-> lp, result |-> valid]
    ELSE LET stamped == StampScan([cells |-> cs, panicked |-> FALSE], w, piece, placement,
                                  OwnerCell(player), 0) IN
         [cells |-> stamped.cells,
          last_piece |-> Some([placement |-> placement, piece |-> piece]),
          result |-> Ok]

\* Plateau::place_piece with an age_placement that reads last_piece without
\* taking it: a refused placement leaves the previous one recorded.
place_piece_keeps_last(cs, w, h, lp, piece, placement, player) ==
    LET aged == age_placement(cs, w, lp)
        valid == is_valid_placement(aged.cells, w, h, piece, placement, OwnerCell(player))
    IN IF valid # Ok THEN [cells |-> aged.cells, last_piece |-> lp, result |-> valid]
       ELSE [cells |-> StampScan(aged, w, piece, placement, OwnerCell(player), 0).cells,
             last_piece |-> Some([placement |-> placement, piece |-> piece]),
             result |-> Ok]

\* Plateau::place_piece: the cells and the last piece it leaves, and the
\* value it returns.
place_piece(cs, w, h, lp, piece, placement, player) ==
    LET aged == age_placement(cs, w, lp) IN
    IF aged.panicked THEN [cells |-> aged.cells, last_piece |-> None, result |-> Panic]
    ELSE LET valid == is_valid_placement(aged.cells, w, h, piece, placement, OwnerCell(player)) IN
         IF valid # Ok THEN [cells |-> aged.cells, last_piece |-> None, result |-> valid]
         ELSE LET stamped == StampScan(aged, w, piece, placement, OwnerCell(player), 0) IN
              IF stamped.panicked
              THEN [cells |-> stamped.cells, last_piece |-> None, result |-> Panic]
              ELSE [cells |-> stamped.cells,
                    last_piece |-> Some([placement |-> placement, piece |-> piece]),
                    result |-> Ok]

(***************************************************************************)
(* Inputs.                                                                 *)
(***************************************************************************)
PieceShapes == {s \in (1..MaxPieceCells) \X (1..MaxPieceCells) : s[1] * s[2] <= MaxPieceCells}

Pieces == UNION {{Piece(s[1], s[2], m) : m \in [1..(s[1] * s[2]) -> BOOLEAN]} : s \in PieceShapes}

\* The pieces is_valid_placement is asked about on its own.
QueryShapes == {s \in (1..MaxQueryCells) \X (1..MaxQueryCells) : s[1] * s[2] <= MaxQueryCells}

QueryPieces ==
    UNION {{Piece(s[1], s[2], m) : m \in [1..(s[1] * s[2]) -> BOOLEAN]} : s \in QueryShapes}

\* The pieces the scan order is looked at with: every mask of up to
\* MaxScanSide rows and columns.
ScanPieces ==
    UNION {{Piece(w, h, m) : m \in [1..(w * h) -> BOOLEAN]} :
              w \in 1..MaxScanSide, h \in 1..MaxScanSide}

Placements == {Point(x, y) : x \in (0 - Reach)..(BoardWidth - 1 + Reach),
                             y \in (0 - Reach)..(BoardHeight - 1 + Reach)}

OwnerCells == {Owned(p, n) : p \in Players, n \in BOOLEAN}

(***************************************************************************)
(* The Plateau's API as actions.                                           *)
(***************************************************************************)
\* The boards the model starts from: Plateau::new(BoardWidth, BoardHeight, ..)
\* with Player1 in the top left corner and Player2 in the bottom right one,
\* as in Plateau::default.
InitPlateau ==
    \E plat \in {PlateauNew(BoardWidth, BoardHeight, Point(0, 0),
                            Point(BoardWidth - 1, BoardHeight - 1))} :
        /\ plat.err = None
        /\ width = plat.width
        /\ height = plat.height
        /\ player1_start = plat.player1_start
        /\ player2_start = plat.player2_start
        /\ cells = plat.cells
        /\ last_piece = plat.last_piece

\* EngineBuilder::finish with `count` players.
InitEngine(count) ==
    /\ player_count = count
    /\ players = [i \in 1..count |->
                    [player |-> IF i = 1 THEN Player1 ELSE Player2, placement_count |-> 0]]
    /\ move_count = 0
    /\ history = <<>>
    /\ errors = 0
    /\ pc = "built"
    /\ observed = <<>>

Init ==
    /\ InitPlateau
    /\ returned = [op |-> "new", result |-> Ok]
    /\ InitEngine(2)

PlacePiece ==
    \E piece \in Pieces, placement \in Placements, player \in Players :
        \E r \in {place_piece(cells, width, height, last_piece, piece, placement, player)} :
            /\ cells' = r.cells
            /\ last_piece' = r.last_piece
            /\ returned' = [op |-> "place_piece", result |-> r.result]
            /\ UNCHANGED <<width, height, player1_start, player2_start, engine_vars>>

Next == PlacePiece

Spec == Init /\ [][Next]_vars

(***************************************************************************)
(* The query as an action: is_valid_placement called by itself, between    *)
(* the calls of place_piece.                                               *)
(***************************************************************************)
\* Plateau::is_valid_placement(&self, ..): the receiver is borrowed shared
\* and no field of Plateau has interior mutability, so the call assigns
\* nothing; it returns its verdict.
IsValidPlacement ==
    \E piece \in Pieces, placement \in Placements, owner \in OwnerCells :
        /\ returned' = [op |-> "is_valid_placement",
                        result |-> is_valid_placement(cells, width, height, piece,
                                                      placement, owner)]
        /\ UNCHANGED <<plateau_vars, engine_vars>>

QueryNext == PlacePiece \/ IsValidPlacement

QuerySpec == Init /\ [][QueryNext]_vars

(***************************************************************************)
(* The constructor as an action: Plateau::new called with any sides and    *)
(* any start points, and place_piece on the plateau it returned.           *)
(***************************************************************************)
Sides == 0..MaxSide

StartPoints == {Point(x, y) : x \in (0 - 1)..MaxSide, y \in (0 - 1)..MaxSide}

\* No plateau has been built: every call of Plateau::new so far, if any,
\* returned Err.
NoPlateau == cells = <<>>

NewInit ==
    /\ width = 0
    /\ height = 0
    /\ player1_start = Point(0, 0)
    /\ player2_start = Point(0, 0)
    /\ cells = <<>>
    /\ last_piece = None
    /\ returned = [op |-> "none"]
    /\ InitEngine(2)

\* Plateau::new(w, h, &p1, &p2): Ok(plateau), or Err and no plateau.
New ==
    /\ NoPlateau
    /\ \E w \in Sides, h \in Sides, p1 \in StartPoints, p2 \in StartPoints :
        \E plat \in {PlateauNew(w, h, p1, p2)} :
            /\ returned' = [op |-> "new",
                            result |-> IF plat.err = None THEN Ok ELSE plat.err,
                            width |-> w, height |-> h, player1 |-> p1, player2 |-> p2]
            /\ IF plat.err = None
               THEN /\ width' = plat.width
                    /\ height' = plat.height
                    /\ player1_start' = plat.player1_start
                    /\ player2_start' = plat.player2_start
                    /\ cells' = plat.cells
                    /\ last_piece' = plat.last_piece
               ELSE UNCHANGED plateau_vars
            /\ UNCHANGED engine_vars

\* Plateau::place_piece on the plateau Plateau::new returned.
PlaceOnNew == ~NoPlateau /\ PlacePiece

NewNext == New \/ PlaceOnNew

NewSpec == NewInit /\ [][NewNext]_vars

(***************************************************************************)
(* Bot (engine/bot) and PieceBag (models/piece): the engine's              *)
(* collaborators.                                                          *)
(***************************************************************************)
\* The pieces PieceBag::next draws here: one cell, or two cells side by side.
BagPieces == {Piece(1, 1, <<TRUE>>), Piece(2, 1, <<TRUE, TRUE>>)}

\* What a bot's process answers within the timeout: nothing (a timeout, an
\* unreachable process or a line that does not parse), or a point; the bots
\* here answer with their own start point.
NoAnswer == [kind |-> "none"]
PointAnswer(p) == [kind |-> "point", point |-> p]
BotAnswers(start) == {NoAnswer, PointAnswer(start)}

ErrNoAnswer == "no valid response"

\* struct PlayerResponse
PlayerResponse(player, piece, raw_response, error) ==
    [player |-> player, piece |-> piece, raw_response |-> raw_response, error |-> error]

\* Bot::request_placement(&mut plateau, &piece): the answer is read and
\* parsed, the point is handed to Plateau::place_piece, and a placement that
\* succeeds is counted.
request_placement(bot, cs, w, h, lp, piece, answer) ==
    IF answer.kind = "none"
    THEN [bot |-> bot, cells |-> cs, last_piece |-> lp, placed |-> None,
          response |-> PlayerResponse(bot.player, piece, None, Some(ErrNoAnswer))]
    ELSE LET r == place_piece(cs, w, h, lp, piece, answer.point, bot.player) IN
         [bot |-> IF r.result = Ok
                  THEN [bot EXCEPT !.placement_count = @ + 1] ELSE bot,
          cells |-> r.cells, last_piece |-> r.last_piece, placed |-> Some(r.result),
          response |-> PlayerResponse(bot.player, piece, Some(answer.point),
                                      IF r.result = Ok THEN None ELSE Some(r.result))]

(***************************************************************************)
(* Engine.                                                                 *)
(***************************************************************************)
\* Engine::next_move with the index taken after `self.move_count += 1`.
TurnIndexAfterIncrement(count, moves) == ((moves + 1) % count) + 1

\* Engine::next_move: `self.players[self.move_count % self.player_count]`,
\* as an index from 1.
TurnIndex(count, moves) == (moves % count) + 1

\* Engine::next_move, with the piece the bag draws and the bot's answer.
next_move(bots, count, moves, cs, w, h, lp, piece, answer) ==
    LET i == TurnIndex(count, moves)
        r == request_placement(bots[i], cs, w, h, lp, piece, answer)
    IN [players |-> [bots EXCEPT ![i] = r.bot],
        move_count |-> moves + 1,
        cells |-> r.cells, last_piece |-> r.last_piece, placed |-> r.placed,
        response |-> r.response]

\* Engine::run with a match that leaves `errors` alone on a success.
run_match_no_reset(errs, hist, response) ==
    IF response.error = None
    THEN [errors |-> errs, history |-> Append(hist, response), break |-> FALSE]
    ELSE IF errs >= ERROR_THRESHOLD
         THEN [errors |-> errs, history |-> hist, break |-> TRUE]
    ELSE [errors |-> errs + 1, history |-> Append(hist, response), break |-> FALSE]

\* Engine::run with `history.insert(0, response)` for the push.
run_match_inserts_first(errs, hist, response) ==
    IF response.error = None
    THEN [errors |-> 0, history |-> <<response>> \o hist, break |-> FALSE]
    ELSE IF errs >= ERROR_THRESHOLD
         THEN [errors |-> errs, history |-> hist, break |-> TRUE]
    ELSE [errors |-> errs + 1, history |-> <<response>> \o hist, break |-> FALSE]

\* Engine::run, the loop's body after next_move and the hook: the match on
\* response.error, then history.push(response) unless the loop is left.
run_match(errs, hist, response) ==
    IF response.error = None
    THEN [errors |-> 0, history |-> Append(hist, response), break |-> FALSE]
    ELSE IF errs >= ERROR_THRESHOLD
         THEN [errors |-> errs, history |-> hist, break |-> TRUE]
    ELSE [errors |-> errs + 1, history |-> Append(hist, response), break |-> FALSE]

\* Engine::placement_counts
placement_counts(bots) ==
    [i \in 1..Len(bots) |-> <<bots[i].player, bots[i].placement_count>>]

\* Engine::run up to its loop: `let mut errors: usize = 0`.
RunStart ==
    /\ pc = "built"
    /\ errors' = 0
    /\ pc' = "loop"
    /\ UNCHANGED <<plateau_vars, returned, players, player_count, move_count,
                   history, observed>>

\* One iteration of the loop of Engine::run; leaving the loop ends run.
RunLoop ==
    /\ pc = "loop"
    /\ move_count < MaxMoves
    /\ \E piece \in BagPieces,
          answer \in BotAnswers(IF players[TurnIndex(player_count, move_count)].player = Player1
                                THEN player1_start ELSE player2_start) :
        \E m \in {next_move(players, player_count, move_count, cells, width, height,
                            last_piece, piece, answer)} :
        \E s \in {run_match(errors, history, m.response)} :
            /\ players' = m.players
            /\ move_count' = m.move_count
            /\ cells' = m.cells
            /\ last_piece' = m.last_piece
            /\ returned' = IF m.placed = None THEN returned
                           ELSE [op |-> "place_piece", result |-> m.placed[1]]
            /\ observed' = Append(observed, m.response)
            /\ errors' = s.errors
            /\ history' = s.history
            /\ pc' = IF s.break THEN "done" ELSE "loop"
            /\ UNCHANGED <<width, height, player1_start, player2_start, player_count>>

EngineInit ==
    /\ InitPlateau
    /\ returned = [op |-> "new", result |-> Ok]
    /\ \E count \in {1, 2} : InitEngine(count)

EngineNext == RunStart \/ RunLoop

EngineSpec == EngineInit /\ [][EngineNext]_vars

(***************************************************************************)
(* Vocabulary of the properties: a placement's footprint and its legality, *)
(* stated on the grid and not by the scan.                                 *)
(***************************************************************************)
\* The indices (in scan order, from 0) of the set sub-cells of a piece.
SetCells(piece) == {i \in 0..(ScanLen(piece) - 1) : PieceGet(piece, ScanPoint(piece, i))}

\* The absolute point of the i-th sub-cell of a piece anchored at `placement`.
AbsPoint(piece, placement, i) == PointAdd(ScanPoint(piece, i), placement)

\* The absolute points the set sub-cells of a piece map to.
Footprint(piece, placement) == {AbsPoint(piece, placement, i) : i \in SetCells(piece)}

InGrid(p) == p.x \in 0..(width - 1) /\ p.y \in 0..(height - 1)

\* The cell of the grid at an in-grid point, and its owner.
CellAt(cs, p) == cs[width * p.y + p.x + 1]
OwnerAt(cs, p) == CellAt(cs, p).tag

Opponent(player) == IF player = Player1 THEN Player2 ELSE Player1

\* Every set sub-cell in the grid, exactly one on a cell of `player`, none
\* on a cell of the opponent.
Legal(cs, piece, placement, player) ==
    LET fp == Footprint(piece, placement) IN
    /\ \A p \in fp : InGrid(p)
    /\ Cardinality({p \in fp : OwnerAt(cs, p) = player}) = 1
    /\ \A p \in fp : OwnerAt(cs, p) # Opponent(player)

\* The owners of all cells, without the is_new flags.
Owners(cs) == [i \in 1..Len(cs) |-> cs[i].tag]

(***************************************************************************)
(* C1. On every board the plateau reaches, for every piece, anchor and     *)
(* owner argument (either player, either is_new flag): when every set      *)
(* sub-cell of the piece maps into the grid, exactly one of them on a cell *)
(* of the placing player and none on a cell of the opponent,               *)
(* is_valid_placement returns Ok.                                          *)
(***************************************************************************)
C1_LegalPlacementIsValid ==
    \A piece \in Pieces, placement \in Placements, owner \in OwnerCells :
        Legal(cells, piece, placement, owner.tag)
            => is_valid_placement(cells, width, height, piece, placement, owner) = Ok

\* The validation of a place_piece has just returned Ok for Player2, and on
\* the board it left a legal placement exists for each player.
C1_Witness ==
    /\ returned = [op |-> "place_piece", result |-> Ok]
    /\ \E i \in 1..Len(cells) : cells[i] = Owned(Player2, TRUE)
    /\ \A player \in Players :
           \E piece \in Pieces, placement \in Placements :
               Legal(cells, piece, placement, player)

(***************************************************************************)
(* C2. A placement is accepted only if it is legal: on every board the     *)
(* plateau reaches, whenever is_valid_placement (for any owner argument)   *)
(* or place_piece (for any player) returns Ok, the set sub-cells of the    *)
(* piece are all in the grid, exactly one of them lies on a cell the       *)
(* player owned before the call and none on a cell of the opponent.        *)
(***************************************************************************)
C2_AcceptedOnlyIfLegal ==
    \A piece \in Pieces, placement \in Placements, player \in Players :
        /\ \A is_new \in BOOLEAN :
               is_valid_placement(cells, width, height, piece, placement,
                                  Owned(player, is_new)) = Ok
                   => Legal(cells, piece, placement, player)
        /\ place_piece(cells, width, height, last_piece, piece, placement, player).result = Ok
               => Legal(cells, piece, placement, player)

\* place_piece has just accepted a placement with two set sub-cells: one on
\* a cell the player owned, one on a cell that was Empty.
C2_Witness ==
    /\ returned = [op |-> "place_piece", result |-> Ok]
    /\ last_piece # None
    /\ Cardinality(Footprint(last_piece[1].piece, last_piece[1].placement)) >= 2

(***************************************************************************)
(* C3. Cell ownership is monotonic: in every step of the plateau (a        *)
(* place_piece that succeeds or fails, by either player), a cell owned by  *)
(* a player stays owned by that player; it never becomes Empty or the      *)
(* other player's.                                                         *)
(***************************************************************************)
C3_OwnershipMonotonic ==
    [][\A i \in 1..Len(cells) :
           cells[i].tag # "Empty" => cells'[i].tag = cells[i].tag]_vars

\* A place_piece has failed on a board where both players own cells beyond
\* their start cells.
C3_Witness ==
    /\ returned.op = "place_piece"
    /\ returned.result # Ok
    /\ \A player \in Players :
           Cardinality({i \in 1..Len(cells) : cells[i].tag = player}) >= 2

\* The footprint of the recorded last placement, if any.
LastFootprint(lp) ==
    IF lp = None THEN {} ELSE Footprint(lp[1].piece, lp[1].placement)

\* The points of the grid.
Grid == {Point(x, y) : x \in 0..(width - 1), y \in 0..(height - 1)}

(***************************************************************************)
(* C8. A failed place_piece is all-or-nothing for the new piece: in every  *)
(* step in which place_piece returns an error, every cell keeps its owner, *)
(* and a cell changes only by having is_new cleared, and only on the       *)
(* footprint of the previously committed placement; that aging stays (no   *)
(* cell of that footprint is new afterwards).                              *)
(***************************************************************************)
C8_FailedPlacementStampsNothing ==
    [][(returned'.op = "place_piece" /\ returned'.result # Ok) =>
          /\ Owners(cells') = Owners(cells)
          /\ \A p \in Grid :
                /\ CellAt(cells', p) # CellAt(cells, p) =>
                      /\ p \in LastFootprint(last_piece)
                      /\ CellAt(cells, p).is_new
                      /\ ~CellAt(cells', p).is_new
                /\ p \in LastFootprint(last_piece) => ~CellAt(cells', p).is_new]_vars

\* A place_piece has failed right after a successful one: the board holds
\* cells beyond the start cells, none of them new, and no last placement.
C8_Witness ==
    /\ returned.op = "place_piece"
    /\ returned.result \in {ErrOutOfBounds, ErrExcessOverlap, ErrEnemyOverlap, ErrNoOverlap}
    /\ last_piece = None
    /\ Cardinality({p \in Grid : CellAt(cells, p) # Empty}) >= 3

(***************************************************************************)
(* C9. After a successful place_piece of piece A at anchor a, the aging at *)
(* the start of the next place_piece clears is_new on exactly the set      *)
(* sub-cells of A at a and changes no other cell: the aged board differs   *)
(* from the board only there, and in the step itself every cell outside    *)
(* the footprint of A and outside the newly stamped footprint is           *)
(* unchanged, while a cell of A's footprint that is not stamped again goes *)
(* from new to old with its owner kept.                                    *)
(***************************************************************************)
C9_AgingClearsExactlyLastFootprint ==
    [][(returned'.op = "place_piece" /\ last_piece # None) =>
          /\ \A p \in LastFootprint(last_piece) : InGrid(p)
          /\ LET aged == age_placement(cells, width, last_piece) IN
                /\ ~aged.panicked
                /\ \A p \in Grid :
                      IF p \in LastFootprint(last_piece)
                      THEN /\ CellAt(cells, p).tag \in Players
                           /\ CellAt(cells, p).is_new
                           /\ CellAt(aged.cells, p) = Owned(CellAt(cells, p).tag, FALSE)
                      ELSE CellAt(aged.cells, p) = CellAt(cells, p)
          /\ \A p \in Grid \ LastFootprint(last_piece') :
                IF p \in LastFootprint(last_piece)
                THEN CellAt(cells', p) = Owned(CellAt(cells, p).tag, FALSE)
                ELSE CellAt(cells', p) = CellAt(cells, p)]_vars

\* A second place_piece has succeeded after a first one of two cells: the
\* board holds an aged cell that is not a start cell, next to the new ones.
C9_Witness ==
    /\ returned = [op |-> "place_piece", result |-> Ok]
    /\ last_piece # None
    /\ \E p \in Grid \ {player1_start, player2_start} :
           /\ CellAt(cells, p) # Empty
           /\ ~CellAt(cells, p).is_new

(***************************************************************************)
(* C10. A placement with a set sub-cell outside the grid.                  *)
(***************************************************************************)
HasOutOfGrid(piece, placement) == \E p \in Footprint(piece, placement) : ~InGrid(p)

\* The set sub-cells scanned before the first one that maps outside the grid.
BeforeFirstOutOfGrid(piece, placement) ==
    {i \in SetCells(piece) :
        \A j \in SetCells(piece) : ~InGrid(AbsPoint(piece, placement, j)) => i < j}

NoOffence == "none"

\* The set sub-cells scanned before the i-th that lie on a cell of `player`.
OwnBefore(cs, piece, placement, player, i) ==
    {j \in SetCells(piece) :
        /\ j < i
        /\ InGrid(AbsPoint(piece, placement, j))
        /\ OwnerAt(cs, AbsPoint(piece, placement, j)) = player}

Offence(cs, piece, placement, player, i) ==
    LET p == AbsPoint(piece, placement, i) IN
    IF ~InGrid(p) THEN ErrOutOfBounds
    ELSE IF OwnerAt(cs, p) = Opponent(player) THEN ErrEnemyOverlap
    ELSE IF OwnerAt(cs, p) = player /\ OwnBefore(cs, piece, placement, player, i) # {}
         THEN ErrExcessOverlap
    ELSE NoOffence

\* The set sub-cells with an offence, and the first of them.
Offending(cs, piece, placement, player) ==
    {i \in SetCells(piece) : Offence(cs, piece, placement, player, i) # NoOffence}

First(indices) == CHOOSE i \in indices : \A j \in indices : i <= j

\* A set sub-cell of the piece lies on a cell of the opponent of `player`.
CoversEnemy(cs, piece, placement, player) ==
    \E p \in Footprint(piece, placement) : InGrid(p) /\ OwnerAt(cs, p) = Opponent(player)

\* The set sub-cells of the piece that lie on cells of `player`.
OwnCovered(cs, piece, placement, player) ==
    {i \in SetCells(piece) :
        /\ InGrid(AbsPoint(piece, placement, i))
        /\ OwnerAt(cs, AbsPoint(piece, placement, i)) = player}

(***************************************************************************)
(* C11. A placement with a set sub-cell on a cell of the opponent.         *)
(***************************************************************************)
\* C11 as claimed: for every placement in which any set sub-cell of the
\* piece lies on a cell owned by the opponent of the placing player,
\* is_valid_placement fails with "Overlap on other player".
C11_EnemyOverlapWhateverElse ==
    \A piece \in QueryPieces, placement \in Placements, owner \in OwnerCells :
        CoversEnemy(cells, piece, placement, owner.tag)
            => is_valid_placement(cells, width, height, piece, placement, owner)
                   = ErrEnemyOverlap

\* C11 as amended: for every placement in which a set sub-cell of the piece
\* lies on a cell of the opponent, is_valid_placement fails; it fails with
\* "Overlap on other player" unless a set sub-cell scanned before the first
\* one on an opponent's cell (row-major order) maps outside the grid or is
\* the second one on an own cell, and then it fails with the error of the
\* first such sub-cell: "Piece out of bounds" or "Overlap greater than one".
C11_EnemyOverlapUnlessEarlierOffence ==
    \A piece \in QueryPieces, placement \in Placements, owner \in OwnerCells :
        CoversEnemy(cells, piece, placement, owner.tag) =>
            LET result == is_valid_placement(cells, width, height, piece, placement, owner)
                enemy == First({i \in SetCells(piece) :
                                  Offence(cells, piece, placement, owner.tag, i)
                                      = ErrEnemyOverlap})
                earlier == {i \in Offending(cells, piece, placement, owner.tag) : i < enemy}
            IN IF earlier = {} THEN result = ErrEnemyOverlap
               ELSE /\ result = Offence(cells, piece, placement, owner.tag, First(earlier))
                    /\ result \in {ErrOutOfBounds, ErrExcessOverlap}

\* The validation of a place_piece has just failed with the enemy-overlap
\* error, on a board where another placement over an opponent's cell fails
\* with a different error.
C11_Witness ==
    /\ returned = [op |-> "place_piece", result |-> ErrEnemyOverlap]
    /\ \E piece \in QueryPieces, placement \in Placements, owner \in OwnerCells :
           /\ CoversEnemy(cells, piece, placement, owner.tag)
           /\ is_valid_placement(cells, width, height, piece, placement, owner)
                  = ErrExcessOverlap

(***************************************************************************)
(* C12. A placement with two or more set sub-cells on own cells.           *)
(***************************************************************************)
\* C12 as claimed: for every placement in which two or more set sub-cells of
\* the piece lie on cells owned by the placing player, is_valid_placement
\* fails with "Overlap greater than one".
C12_ExcessOverlapWhateverElse ==
    \A piece \in QueryPieces, placement \in Placements, owner \in OwnerCells :
        Cardinality(OwnCovered(cells, piece, placement, owner.tag)) >= 2
            => is_valid_placement(cells, width, height, piece, placement, owner)
                   = ErrExcessOverlap

\* C12 as amended: for every placement in which two or more set sub-cells of
\* the piece lie on cells of the placing player, is_valid_placement fails;
\* it fails with "Overlap greater than one" unless a set sub-cell scanned
\* before the second one on an own cell (row-major order) maps outside the
\* grid or lies on an opponent's cell, and then it fails with the error of
\* the first such sub-cell: "Piece out of bounds" or "Overlap on other
\* player".
C12_ExcessOverlapUnlessEarlierOffence ==
    \A piece \in QueryPieces, placement \in Placements, owner \in OwnerCells :
        LET own == OwnCovered(cells, piece, placement, owner.tag) IN
        Cardinality(own) >= 2 =>
            LET result == is_valid_placement(cells, width, height, piece, placement, owner)
                second == First(own \ {First(own)})
                earlier == {i \in Offending(cells, piece, placement, owner.tag) : i < second}
            IN IF earlier = {} THEN result = ErrExcessOverlap
               ELSE /\ result = Offence(cells, piece, placement, owner.tag, First(earlier))
                    /\ result \in {ErrOutOfBounds, ErrEnemyOverlap}

\* The validation of a place_piece has just failed with the excess-overlap
\* error, on a board where a placement over two own cells fails with the
\* out-of-bounds error and another with the enemy-overlap error.
C12_Witness ==
    /\ returned = [op |-> "place_piece", result |-> ErrExcessOverlap]
    /\ \A other \in {ErrOutOfBounds, ErrEnemyOverlap} :
           \E piece \in QueryPieces, placement \in Placements, owner \in OwnerCells :
               /\ Cardinality(OwnCovered(cells, piece, placement, owner.tag)) >= 2
               /\ is_valid_placement(cells, width, height, piece, placement, owner) = other

(***************************************************************************)
(* C13. On every board the plateau reaches, for every piece (a piece with  *)
(* no set sub-cell included), anchor and owner argument: when all set      *)
(* sub-cells of the piece are in the grid and on Empty cells,              *)
(* is_valid_placement fails with "No Overlap"; and it is the verdict of    *)
(* the whole scan, returned only then: a placement with a set sub-cell     *)
(* outside the grid or on an owned cell never gets it.                     *)
(***************************************************************************)
C13_NoOverlapAfterWholeScan ==
    \A piece \in QueryPieces, placement \in Placements, owner \in OwnerCells :
        (\A p \in Footprint(piece, placement) : InGrid(p) /\ CellAt(cells, p) = Empty)
            <=> (is_valid_placement(cells, width, height, piece, placement, owner)
                    = ErrNoOverlap)

\* The validation of a place_piece has just failed with the no-overlap
\* error on a board that has grown beyond the start cells and still has two
\* Empty cells side by side.
C13_Witness ==
    /\ returned = [op |-> "place_piece", result |-> ErrNoOverlap]
    /\ Cardinality({p \in Grid : CellAt(cells, p) # Empty}) >= 3
    /\ \E p \in Grid :
           /\ CellAt(cells, p) = Empty
           /\ InGrid(Point(p.x + 1, p.y))
           /\ CellAt(cells, Point(p.x + 1, p.y)) = Empty

(***************************************************************************)
(* C14. Plateau::new(width, height, p1_start, p2_start) returns an error   *)
(* exactly when p1_start or p2_start lies outside [0,width)x[0,height),    *)
(* which is every call with width = 0 or height = 0, and returns a         *)
(* plateau of these sides otherwise; Plateau::default (50x50, starts (5,5) *)
(* and (44,44)) gets a plateau.                                            *)
(***************************************************************************)
InRect(w, h, p) == p.x \in 0..(w - 1) /\ p.y \in 0..(h - 1)

C14_NewFailsExactlyOnOutsideStart ==
    /\ returned.op = "new" =>
          /\ (returned.result # Ok) <=>
                \/ ~InRect(returned.width, returned.height, returned.player1)
                \/ ~InRect(returned.width, returned.height, returned.player2)
          /\ (returned.width = 0 \/ returned.height = 0) => returned.result # Ok
          /\ IF returned.result = Ok
             THEN /\ width = returned.width
                  /\ height = returned.height
                  /\ Len(cells) = returned.width * returned.height
             ELSE NoPlateau
    /\ PlateauDefault.err = None
    /\ Len(PlateauDefault.cells) = DEFAULT_SIZE * DEFAULT_SIZE

\* Plateau::new has just returned a plateau with two rows and two columns.
C14_Witness ==
    /\ returned.op = "new"
    /\ returned.result = Ok
    /\ returned.width = 2
    /\ returned.height = 2
    /\ returned.player1 # returned.player2

(***************************************************************************)
(* C15. For every pair of in-bounds start points, equal or distinct, the   *)
(* plateau Plateau::new returns has the cell at p1_start owned by Player1  *)
(* with is_new = false and the cell at p2_start owned by Player2 with      *)
(* is_new = false.                                                         *)
(***************************************************************************)
C15_StartCellsOwned ==
    (returned.op = "new" /\ returned.result = Ok) =>
        /\ CellAt(cells, returned.player1) = Owned(Player1, FALSE)
        /\ CellAt(cells, returned.player2) = Owned(Player2, FALSE)

(***************************************************************************)
(* C16. Cell equality terminates and compares by variant only: a cell of   *)
(* the board compared with any cell, in either order, returns, and returns *)
(* true exactly when the two cells are of the same variant (Empty and      *)
(* Empty, Player1 and Player1, Player2 and Player2), whatever their is_new *)
(* flags.                                                                  *)
(***************************************************************************)
AllCells == OwnerCells \cup {Empty}

C16_EqTerminatesByVariant ==
    \A i \in 1..Len(cells), other \in AllCells :
        /\ eq(cells[i], other) = Returns(cells[i].tag = other.tag)
        /\ eq(other, cells[i]) = Returns(other.tag = cells[i].tag)

(***************************************************************************)
(* The plateau and the pieces of the unit tests of the plateau.            *)
(***************************************************************************)
TestPlateau == PlateauNew(3, 3, Point(1, 1), Point(2, 2))
piece_horizontal == Piece(4, 1, <<FALSE, TRUE, TRUE, FALSE>>)
piece_vertical == Piece(1, 4, <<FALSE, TRUE, TRUE, FALSE>>)
piece_square == Piece(3, 3, <<TRUE, TRUE, TRUE, TRUE, FALSE, TRUE, TRUE, TRUE, TRUE>>)

\* is_valid_placement on the plateau of the tests.
TestValid(piece, placement, owner) ==
    is_valid_placement(TestPlateau.cells, TestPlateau.width, TestPlateau.height,
                       piece, placement, owner)

\* The rectangle of the piece (set and unset sub-cells) leaves the grid.
RectLeavesGrid(piece, placement) ==
    \/ ~InGrid(placement)
    \/ ~InGrid(PointAdd(Point(piece.width - 1, piece.height - 1), placement))

(***************************************************************************)
(* C17. Only the set sub-cells of a piece are subject to the bounds and    *)
(* overlap checks: on every board the plateau reaches, a placement whose   *)
(* anchor is negative or whose rectangle extends past the grid is valid    *)
(* whenever its set sub-cells are all in the grid with exactly one on an   *)
(* own cell and none on an opponent's cell; the is_new flag of the owner   *)
(* argument never changes the result; and on the 3x3 plateau with starts   *)
(* (1,1) and (2,2) the placements of the unit tests are valid: the 4x1     *)
(* mask [F,T,T,F] at (0,1) and (-1,1) and the 1x4 mask at (1,0) and (1,-1) *)
(* for Player1, the 3x3 ring at (0,0) for Player2.                         *)
(***************************************************************************)
C17_OnlySetSubCellsAreChecked ==
    /\ \A piece \in QueryPieces, placement \in Placements, player \in Players :
          /\ (RectLeavesGrid(piece, placement) /\ Legal(cells, piece, placement, player))
                => is_valid_placement(cells, width, height, piece, placement,
                                      Owned(player, FALSE)) = Ok
          /\ is_valid_placement(cells, width, height, piece, placement, Owned(player, TRUE))
                = is_valid_placement(cells, width, height, piece, placement,
                                     Owned(player, FALSE))
    /\ TestPlateau.err = None
    /\ \A is_new \in BOOLEAN :
          /\ TestValid(piece_horizontal, Point(0, 1), Owned(Player1, is_new)) = Ok
          /\ TestValid(piece_horizontal, Point(0 - 1, 1), Owned(Player1, is_new)) = Ok
          /\ TestValid(piece_vertical, Point(1, 0), Owned(Player1, is_new)) = Ok
          /\ TestValid(piece_vertical, Point(1, 0 - 1), Owned(Player1, is_new)) = Ok
          /\ TestValid(piece_square, Point(0, 0), Owned(Player2, is_new)) = Ok

\* place_piece has just accepted a piece with an unset sub-cell at an anchor
\* outside the grid, on a board that had grown beyond the start cells: the
\* new cell is in the grid, the anchor is not.
C17_Witness ==
    /\ returned = [op |-> "place_piece", result |-> Ok]
    /\ last_piece # None
    /\ ~InGrid(last_piece[1].placement)
    /\ Footprint(last_piece[1].piece, last_piece[1].placement) # {}
    /\ Cardinality({p \in Grid : CellAt(cells, p) # Empty}) >= 3

(***************************************************************************)
(* C18. The static description of a plateau never changes after            *)
(* construction: in every step taken on a plateau (any place_piece,        *)
(* accepted or not) width, height and the two start points keep their      *)
(* values and the number of cells stays the same, and whenever a plateau   *)
(* exists the number of its cells is width * height.                       *)
(***************************************************************************)
C18_StaticDescriptionFixed ==
    [][/\ ~NoPlateau' => Len(cells') = width' * height'
       /\ ~NoPlateau =>
             /\ width' = width
             /\ height' = height
             /\ player1_start' = player1_start
             /\ player2_start' = player2_start
             /\ Len(cells') = Len(cells)]_vars

\* A place_piece has been accepted and the next one refused on a plateau
\* that is not square.
C18_Witness ==
    /\ returned.op = "place_piece"
    /\ returned.result # Ok
    /\ width # height
    /\ Cardinality({i \in 1..Len(cells) : cells[i] # Empty}) >= 2
    /\ \E p \in Grid \ {player1_start, player2_start} : CellAt(cells, p) # Empty

(***************************************************************************)
(* Vocabulary of the engine's properties.                                  *)
(***************************************************************************)
\* The player of the agent at index k (from 0) of Engine.players, as
\* EngineBuilder::finish builds the list.
AgentPlayer(k) == IF k = 0 THEN Player1 ELSE Player2

\* The number of responses with an error at the end of a sequence of
\* responses: the error turns since the last success.
LastSuccess(responses) ==
    LET ok == {j \in 1..Len(responses) : responses[j].error = None} IN
    IF ok = {} THEN 0 ELSE CHOOSE j \in ok : \A k \in ok : k <= j

TrailingErrors(responses) == Len(responses) - LastSuccess(responses)

(***************************************************************************)
(* C4. Turn i (the 0-indexed count of next_move calls) is assigned to the  *)
(* agent at index i mod player_count, whether or not earlier turns failed: *)
(* move_count is the number of next_move calls made, the i-th response     *)
(* handed out is that agent's, and with two agents the turns alternate     *)
(* starting with Player1.                                                  *)
(***************************************************************************)
C4_TurnOrder ==
    /\ move_count = Len(observed)
    /\ \A j \in 1..Len(observed) :
          /\ observed[j].player = AgentPlayer((j - 1) % player_count)
          /\ player_count = 2 =>
                observed[j].player = (IF j % 2 = 1 THEN Player1 ELSE Player2)

\* Two agents, a failed turn of Player1 followed by a turn of Player2 that
\* succeeded and a third turn, of Player1 again.
C4_Witness ==
    /\ player_count = 2
    /\ Len(observed) >= 3
    /\ observed[1].error # None
    /\ observed[2].error = None
    /\ observed[3].player = Player1

(***************************************************************************)
(* C5. run() terminates as soon as the consecutive-error counter reaches   *)
(* the threshold: while the loop runs fewer than ERROR_THRESHOLD error     *)
(* turns have passed since the last success, and when run() has ended      *)
(* exactly ERROR_THRESHOLD error turns have.                               *)
(***************************************************************************)
C5_EndsAfterThresholdErrors ==
    /\ pc = "loop" => TrailingErrors(observed) < ERROR_THRESHOLD
    /\ pc = "done" => TrailingErrors(observed) = ERROR_THRESHOLD

(***************************************************************************)
(* C6. Every response next_move returns during run(), the one of the turn  *)
(* on which the match ends included, is appended to history: history is    *)
(* the sequence of responses handed out, and its length is move_count.     *)
(***************************************************************************)
C6_HistoryHoldsEveryTurn ==
    /\ history = observed
    /\ Len(history) = move_count

(***************************************************************************)
(* C7. A successful turn resets the consecutive-error counter to zero,     *)
(* and run() ends only on a turn whose response carries an error, and only *)
(* when at least ERROR_THRESHOLD error responses have occurred in a row    *)
(* since the last success: errors separated by a success do not add up,    *)
(* and a match whose runs of errors are all shorter never ends.            *)
(***************************************************************************)
C7_EndsOnlyOnThresholdErrorsInARow ==
    /\ (Len(observed) > 0 /\ observed[Len(observed)].error = None) => errors = 0
    /\ pc = "loop" => errors = (IF TrailingErrors(observed) < ERROR_THRESHOLD
                                THEN TrailingErrors(observed) ELSE ERROR_THRESHOLD)
    /\ pc = "done" =>
          /\ Len(observed) > 0
          /\ observed[Len(observed)].error # None
          /\ TrailingErrors(observed) >= ERROR_THRESHOLD

\* run() has ended in a match that had a successful turn.
C7_Witness ==
    /\ pc = "done"
    /\ \E j \in 1..Len(observed) : observed[j].error = None

(***************************************************************************)
(* C19. History is append-only and in turn order: in every step of run()   *)
(* the entries already in history stay as they are and where they are (a   *)
(* step appends or leaves history alone), and the j-th entry of history is *)
(* the response of the j-th turn attempted, so its player is the agent at  *)
(* index (j - 1) mod player_count, counting entries from 1.                *)
(***************************************************************************)
C19_HistoryAppendOnlyInTurnOrder ==
    [][/\ Len(history') >= Len(history)
       /\ \A j \in 1..Len(history) : history'[j] = history[j]
       /\ Len(history') <= Len(observed')
       /\ \A j \in 1..Len(history') :
             /\ history'[j] = observed'[j]
             /\ history'[j].player = AgentPlayer((j - 1) % player_count)]_vars

\* Two agents, and a history of four turns or more with a failed turn
\* followed by a successful one.
C19_Witness ==
    /\ player_count = 2
    /\ Len(history) >= 4
    /\ history[2].error # None
    /\ history[3].error = None

(***************************************************************************)
(* C20. Validation is a pure query: a call of is_valid_placement, whatever *)
(* its input and its verdict (Ok or any error), leaves every field of the  *)
(* plateau as it was: cells with their is_new flags, the recorded last     *)
(* placement, width, height and start points. Aging happens in place_piece *)
(* only, once in each call: a place_piece, accepted or not, takes the      *)
(* recorded placement and leaves none of its cells new, except those the   *)
(* accepted piece stamps.                                                  *)
(***************************************************************************)
C20_ValidationIsPureQuery ==
    [][/\ returned'.op = "is_valid_placement" => plateau_vars' = plateau_vars
       /\ returned'.op = "place_piece" =>
             /\ last_piece' = None \/ returned'.result = Ok
             /\ \A p \in LastFootprint(last_piece) \ LastFootprint(last_piece') :
                   ~CellAt(cells', p).is_new]_vars

\* is_valid_placement has just returned an error on a plateau whose last
\* placement is still recorded and still new.
C20_Witness ==
    /\ returned.op = "is_valid_placement"
    /\ returned.result \in {ErrOutOfBounds, ErrExcessOverlap, ErrEnemyOverlap, ErrNoOverlap}
    /\ last_piece # None
    /\ \E p \in LastFootprint(last_piece) : CellAt(cells, p).is_new

(***************************************************************************)
(* The verdict of a placement stated on the piece's local points, ordered  *)
(* by row and then by column.                                              *)
(***************************************************************************)
\* The set local points of a piece.
LocalSet(piece) ==
    {p \in {Point(x, y) : x \in 0..(piece.width - 1), y \in 0..(piece.height - 1)} :
        PieceGet(piece, p)}

\* p comes before q in row-major order: y outer, x inner.
RowMajorBefore(p, q) == p.y < q.y \/ (p.y = q.y /\ p.x < q.x)

\* The local point p maps onto a cell of `player`.
OnCellOf(cs, placement, player, p) ==
    /\ InGrid(PointAdd(p, placement))
    /\ OwnerAt(cs, PointAdd(p, placement)) = player

\* What the set local point p offends, if anything.
OffenceAt(cs, piece, placement, player, p) ==
    IF ~InGrid(PointAdd(p, placement)) THEN ErrOutOfBounds
    ELSE IF OnCellOf(cs, placement, Opponent(player), p) THEN ErrEnemyOverlap
    ELSE IF /\ OnCellOf(cs, placement, player, p)
            /\ \E q \in LocalSet(piece) :
                   RowMajorBefore(q, p) /\ OnCellOf(cs, placement, player, q)
         THEN ErrExcessOverlap
    ELSE NoOffence

OffendingAt(cs, piece, placement, player) ==
    {p \in LocalSet(piece) : OffenceAt(cs, piece, placement, player, p) # NoOffence}

\* The verdict: the offence of the first offending point, and without one
\* "No Overlap" when no point is on an own cell, Ok otherwise.
Verdict(cs, piece, placement, player) ==
    LET offending == OffendingAt(cs, piece, placement, player) IN
    IF offending # {}
    THEN OffenceAt(cs, piece, placement, player,
                   CHOOSE p \in offending :
                       \A q \in offending \ {p} : RowMajorBefore(p, q))
    ELSE IF \A p \in LocalSet(piece) : ~OnCellOf(cs, placement, player, p)
         THEN ErrNoOverlap
    ELSE Ok

(***************************************************************************)
(* C21. When a placement breaks several rules at once, is_valid_placement  *)
(* reports the error of the first offending set sub-cell in row-major scan *)
(* order (y outer, x inner): out of bounds at that cell, enemy overlap at  *)
(* that cell, or excess overlap at the second own cell, whichever is met   *)
(* first; "No Overlap" is reported only if the whole scan meets no         *)
(* offending cell (and no own cell), and Ok if it meets none and exactly   *)
(* one own cell. On every board the plateau reaches, for every piece of up *)
(* to MaxScanSide rows and columns or up to MaxQueryCells sub-cells.       *)
(***************************************************************************)
C21_FirstOffenceInRowMajorOrder ==
    \A piece \in ScanPieces \cup QueryPieces, placement \in Placements,
       owner \in OwnerCells :
        is_valid_placement(cells, width, height, piece, placement, owner)
            = Verdict(cells, piece, placement, owner.tag)

\* The validation of a place_piece has just failed, on a board that has
\* grown beyond the start cells and where some placement has two sub-cells
\* with different offences, the one of the upper row right of the one of
\* the lower row: the order of the rows and the columns decides the error.
C21_Witness ==
    /\ returned.op = "place_piece"
    /\ returned.result \in {ErrOutOfBounds, ErrExcessOverlap, ErrEnemyOverlap}
    /\ Cardinality({p \in Grid : CellAt(cells, p) # Empty}) >= 3
    /\ \E piece \in ScanPieces, placement \in Placements, player \in Players :
           \E p \in OffendingAt(cells, piece, placement, player),
              q \in OffendingAt(cells, piece, placement, player) :
               /\ p.y < q.y
               /\ p.x > q.x
               /\ OffenceAt(cells, piece, placement, player, p)
                      # OffenceAt(cells, piece, placement, player, q)

(***************************************************************************)
(* C22. In every state of the plateau the cells whose is_new flag is true  *)
(* are exactly the set sub-cells of the recorded last placement, all owned *)
(* by one player, the one who made it, and there are none when no last     *)
(* placement is recorded. An accepted place_piece records its own          *)
(* placement as the last placement; a refused place_piece takes the        *)
(* previous one and leaves none recorded, so that the next call ages       *)
(* nothing.                                                                *)
(***************************************************************************)
\* The points of the grid whose cell is new.
NewCells(cs) == {p \in Grid : CellAt(cs, p) # Empty /\ CellAt(cs, p).is_new}

NewCellsAreLastPlacement(cs, lp) ==
    /\ NewCells(cs) = LastFootprint(lp)
    /\ lp # None => LastFootprint(lp) # {}
    /\ \E player \in Players : \A p \in NewCells(cs) : CellAt(cs, p).tag = player

C22_NewCellsAreTheLastPlacement ==
    [][/\ NewCellsAreLastPlacement(cells, last_piece)
       /\ NewCellsAreLastPlacement(cells', last_piece')
       /\ (returned'.op = "place_piece" /\ returned'.result = Ok) =>
             /\ last_piece' # None
             /\ \E player \in Players :
                   /\ place_piece(cells, width, height, last_piece, last_piece'[1].piece,
                                  last_piece'[1].placement, player)
                          = [cells |-> cells', last_piece |-> last_piece', result |-> Ok]
                   /\ \A p \in LastFootprint(last_piece') :
                         CellAt(cells', p) = Owned(player, TRUE)
       /\ (returned'.op = "place_piece" /\ returned'.result # Ok) =>
             /\ last_piece' = None
             /\ NewCells(cells') = {}
             /\ age_placement(cells', width, last_piece').cells = cells']_vars

\* A place_piece of two cells has been accepted on a board where both
\* players own aged cells beyond their start cells.
C22_Witness ==
    /\ returned = [op |-> "place_piece", result |-> Ok]
    /\ Cardinality(NewCells(cells)) = 2
    /\ \A player \in Players :
           \E p \in Grid \ {player1_start, player2_start} :
               CellAt(cells, p) = Owned(player, FALSE)

(***************************************************************************)
(* C23. The plateau never indexes outside its cells: in every state every  *)
(* set sub-cell of the recorded last placement is in the grid, at an index *)
(* width * y + x below width * height, so that age_placement reads and     *)
(* writes in-bounds cells only; no place_piece has panicked, and the next  *)
(* place_piece, whatever its piece, its anchor (negative ones included)    *)
(* and its player, does not panic either, in aging or in stamping.         *)
(***************************************************************************)
C23_NeverIndexesOutsideCells ==
    /\ returned.result # Panic
    /\ Len(cells) = width * height
    /\ \A p \in LastFootprint(last_piece) :
          /\ InGrid(p)
          /\ CellIndex(width, p) \in 0..(width * height - 1)
    /\ ~age_placement(cells, width, last_piece).panicked
    /\ \A piece \in Pieces, placement \in Placements, player \in Players :
          place_piece(cells, width, height, last_piece, piece, placement, player).result
              # Panic

\* place_piece has just accepted a piece at an anchor with a negative
\* coordinate, on a board with four owned cells or more.
C23_Witness ==
    /\ returned = [op |-> "place_piece", result |-> Ok]
    /\ last_piece # None
    /\ (last_piece[1].placement.x < 0 \/ last_piece[1].placement.y < 0)
    /\ Cardinality({i \in 1..Len(cells) : cells[i] # Empty}) >= 4

=============================================================================
